---- MODULE Spec2Model ----
(***************************************************************************)
(* Model of the numerical routines of the manim scene scripts:             *)
(*   - get_lorenz_points, the forward-Euler Lorenz integrator, in its      *)
(*     three copies (scene4.py, scene5.py, scene6.py);                     *)
(*   - update_pendulum, the per-frame callback of scene7.py, with its      *)
(*     closed-form damped-pendulum kinematics and its two bounded trails.  *)
(*                                                                         *)
(* Numbers.  A number is a tagged tuple.  <<"q", n, d>> is the rational    *)
(* n/d in lowest terms with d > 0; arithmetic on rationals is exact (IEEE  *)
(* rounding, infinities and NaN are not modelled).  Values of np.exp,      *)
(* np.cos, np.sin, np.sqrt and the constant PI away from the arguments     *)
(* where they are rational are kept as symbolic terms (<<"exp", a>>, ...), *)
(* and the arithmetic simplifies only with the identities that hold        *)
(* exactly: 0 + a = a, a - 0 = a, 1 * a = a, 0 * a = 0.                    *)
(***************************************************************************)
EXTENDS Integers, Sequences, FiniteSets, TLC

VARIABLES
    \* ---- get_lorenz_points: the call in progress -------------------------
    pc,          \* "idle" | "loop" | "done"
    scene,       \* which copy runs: 4, 5 or 6 (0 before the first call)
    args,        \* [xyz, sigma, rho, beta, dt, num_points] as passed
    x, y, z,     \* the locals x, y, z
    dx, dy, dz,  \* the locals dx, dy, dz (Unbound until the first iteration)
    points,      \* the local list points
    derivatives, \* the local list derivatives (scene6 only)
    iter,        \* iterations of the for loop completed
    ret,         \* what the call gave: [exc, points, extra]
    memo,        \* observer: one earlier completed call, [scene, args, ret]
    heap,        \* the list objects: id -> [live, items]
    xyz_ref,     \* the id of the list passed as xyz
    points_ref,  \* the id of the list the local points is bound to
    \* ---- scene7: the state update_pendulum closes over -------------------
    time,        \* self.time
    frame_dt,    \* the dt the rendering loop passes to the callback
    theta, theta_dot,  \* the callback's locals theta, theta_dot
    bob,         \* bob.get_center(); bob_glow is moved with it
    rod,         \* the rod's <<start, end>>
    path,        \* path.points
    potential_bar, kinetic_bar,  \* the heights of the two energy bars
    phase_point, \* phase_point.get_center()
    phase_trail, \* phase_trail.points
    frames,      \* callbacks run so far
    path_added, phase_added,  \* observer: every row ever put into each trail
    dts,         \* observer: the increments the callbacks were passed
    evals,       \* observer: the t each callback evaluated the kinematics at
    \* ---- the kinematics as a function of (t, theta_0, damping, omega) ----
    kin_in,      \* the inputs [t, theta_0, damping, omega]
    kin_out      \* <<>> before evaluation, then <<theta, theta_dot>>

lorenzVars == <<pc, scene, args, x, y, z, dx, dy, dz, points, derivatives,
                iter, ret, memo, heap, xyz_ref, points_ref>>
pendulumVars == <<time, frame_dt, theta, theta_dot, bob, rod, path,
                  potential_bar, kinetic_bar, phase_point, phase_trail, frames,
                  path_added, phase_added, dts, evals>>
kinVars == <<kin_in, kin_out>>
vars == <<lorenzVars, pendulumVars, kinVars>>

-----------------------------------------------------------------------------
(* Bounds of the model. *)

\* num_points is drawn from -1 .. MaxPoints (and one non-integer value).
MaxPoints == 3

\* num_points is drawn from -1 .. MaxDefaultPoints when sigma, rho, beta, dt
\* are the defaults.
MaxDefaultPoints == 1

\* Callbacks run per behaviour of the pendulum scene.
MaxFrames == 45

\* Callbacks run per behaviour when every callback gets an increment of its
\* own.
MaxVarFrames == 4

-----------------------------------------------------------------------------
(* Exact arithmetic. *)

Abs(n) == IF n < 0 THEN -n ELSE n

RECURSIVE Gcd(_, _)
Gcd(a, b) == IF b = 0 THEN a ELSE Gcd(b, a % b)

\* The rational n/d (d > 0) in lowest terms.
Q(n, d) == LET g == Gcd(Abs(n), d) IN <<"q", n \div g, d \div g>>

Whole(n) == <<"q", n, 1>>
Zero == Whole(0)
One == Whole(1)

IsInteger(a) == a[3] = 1

IsQ(a) == a[1] = "q"
IsZero(a) == IsQ(a) /\ a[2] = 0
IsOne(a) == IsQ(a) /\ a[2] = 1 /\ a[3] = 1

Neg(a) == IF IsQ(a) THEN <<"q", -a[2], a[3]>> ELSE <<"neg", a>>

Add(a, b) ==
    IF IsQ(a) /\ IsQ(b) THEN Q(a[2] * b[3] + b[2] * a[3], a[3] * b[3])
    ELSE IF IsZero(a) THEN b
    ELSE IF IsZero(b) THEN a
    ELSE <<"add", a, b>>

Sub(a, b) ==
    IF IsQ(a) /\ IsQ(b) THEN Q(a[2] * b[3] - b[2] * a[3], a[3] * b[3])
    ELSE IF IsZero(b) THEN a
    ELSE <<"sub", a, b>>

\* Multiplication commutes, so a rational factor is written first.
Mul(a, b) ==
    IF IsQ(a) /\ IsQ(b) THEN Q(a[2] * b[2], a[3] * b[3])
    ELSE IF IsZero(a) \/ IsZero(b) THEN Zero
    ELSE IF IsOne(a) THEN b
    ELSE IF IsOne(b) THEN a
    ELSE IF IsQ(b) THEN <<"mul", b, a>>
    ELSE <<"mul", a, b>>

\* a / b for b # 0.
Div(a, b) ==
    IF IsQ(a) /\ IsQ(b)
    THEN IF b[2] > 0 THEN Q(a[2] * b[3], a[3] * b[2])
                     ELSE Q(-(a[2] * b[3]), a[3] * (-b[2]))
    ELSE IF IsOne(b) THEN a
    ELSE <<"div", a, b>>

\* np.pi, np.sqrt, np.exp, np.cos, np.sin: exact where the value is rational.
PI == <<"pi">>
Sqrt(a) == IF IsZero(a) \/ IsOne(a) THEN a ELSE <<"sqrt", a>>
Exp(a) == IF IsZero(a) THEN One ELSE <<"exp", a>>
Cos(a) == IF IsZero(a) THEN One ELSE <<"cos", a>>
Sin(a) == IF IsZero(a) THEN Zero ELSE <<"sin", a>>

-----------------------------------------------------------------------------
(* get_lorenz_points: inputs. *)

\* A local that no statement has assigned yet.
Unbound == <<"unbound">>

Triple(a, b, c) == <<Whole(a), Whole(b), Whole(c)>>

\* scene4's base_point is (10, 10, 10).
XyzInputs == {Triple(1, 1, 1), Triple(-1, 2, 1), Triple(10, 10, 10)}

\* The keyword defaults of the signature.
DefaultParams ==
    [sigma |-> Whole(10), rho |-> Whole(28), beta |-> Div(Whole(8), Whole(3)),
     dt |-> Q(1, 100)]

\* Parameters whose trajectories stay small for MaxPoints steps.
SmallParams ==
    {[sigma |-> Whole(2), rho |-> Whole(3), beta |-> Q(1, 2), dt |-> Q(1, 2)]}

\* num_points: the integers -1 .. max and one real that is no integer.
NumPointsInputs(max) == {Whole(n) : n \in -1 .. max} \cup {Q(3, 2)}

ArgsOf(p, q, n) ==
    [xyz |-> p, sigma |-> q.sigma, rho |-> q.rho, beta |-> q.beta,
     dt |-> q.dt, num_points |-> n]

\* With the defaults every step multiplies the denominators by 10^4, so the
\* defaults run for at most MaxDefaultPoints steps.
ArgInputs ==
    {ArgsOf(p, q, n) :
        p \in XyzInputs, q \in SmallParams, n \in NumPointsInputs(MaxPoints)}
    \cup
    {ArgsOf(p, DefaultParams, n) :
        p \in XyzInputs, n \in NumPointsInputs(MaxDefaultPoints)}

NoArgs ==
    [xyz |-> <<>>, sigma |-> Zero, rho |-> Zero, beta |-> Zero, dt |-> Zero,
     num_points |-> Zero]

\* A normal return carries exc = ""; extra is <<"none">> (scene4), the list
\* <<"triple", dx, dy, dz>> (scene5) or <<"list">> \o derivatives (scene6).
Returned(pts, extra) == [exc |-> "", points |-> pts, extra |-> extra]
Raised(name) == [exc |-> name, points |-> <<>>, extra |-> <<"none">>]
NoRet == Raised("none")

\* No object.
NoRef == 0

\* earlier: the remembered call returned before the current call was entered;
\* ref: the id of the list it returned (NoRef if it raised).
NoMemo ==
    [scene |-> 0, args |-> NoArgs, ret |-> NoRet, earlier |-> FALSE,
     ref |-> NoRef]

\* List objects.  A list of floats holds its numbers, a list of lists holds
\* references <<"ref", id>> to its elements.  Two trajectories and one
\* initial state are alive at a time at most.
Ids == 1 .. 2 * (MaxPoints + 2) + 1
Ref(i) == <<"ref", i>>
Free == [live |-> FALSE, items |-> <<>>]
Obj(items) == [live |-> TRUE, items |-> items]
EmptyHeap == [i \in Ids |-> Free]

\* The ids of the elements of list r.
Elements(h, r) ==
    {h[r].items[k][2] :
        k \in {j \in 1 .. Len(h[r].items) : h[r].items[j][1] = "ref"}}

\* What the list of lists r holds now.
Contents(h, r) == [k \in 1 .. Len(h[r].items) |-> h[h[r].items[k][2]].items]

-----------------------------------------------------------------------------
(* get_lorenz_points: the code. *)

\* range(n) accepts integers only; for n <= 0 it is empty.
RangeAccepts(n) == IsInteger(n)
\* Variant: a range that yields one value more.
RangeLenInclusive(n) == IF n[2] >= 0 THEN n[2] + 1 ELSE 0
RangeLen(n) == IF n[2] > 0 THEN n[2] ELSE 0

\* Variant: the list outlives the call (a list shared between calls).
NewPointsShared == ret.points

\* A new object gets an id no live object has.
Fresh(h) == CHOOSE i \in Ids : ~h[i].live /\ \A j \in 1 .. i - 1 : h[j].live

\* The ids reached from the roots, in the order met: each root, then its
\* elements.  An id met twice is listed twice.
RECURSIVE Walk(_, _)
Walk(h, roots) ==
    IF roots = <<>> THEN <<>>
    ELSE LET r == Head(roots)
             own == IF r = NoRef THEN <<>>
                    ELSE <<r>> \o [k \in 1 .. Len(h[r].items) |->
                                     IF h[r].items[k][1] = "ref"
                                     THEN h[r].items[k][2] ELSE r]
         IN  own \o Walk(h, Tail(roots))

\* w without the repetitions.
RECURSIVE Distinct(_)
Distinct(w) ==
    IF w = <<>> THEN <<>>
    ELSE LET d == Distinct(SubSeq(w, 1, Len(w) - 1))
             i == w[Len(w)]
         IN  IF \E k \in 1 .. Len(d) : d[k] = i THEN d ELSE Append(d, i)

\* An object nothing refers to any more is gone: what stays is the roots and
\* the elements of the roots.  An id is a name only, so the objects that
\* stay are renamed 1, 2, ... in the order of the walk; at is the renaming.
Collect(h, roots) ==
    LET d == Distinct(Walk(h, roots))
        at == [i \in {d[k] : k \in 1 .. Len(d)} |->
                  CHOOSE k \in 1 .. Len(d) : d[k] = i]
        moved(o) == [live |-> TRUE,
                     items |-> [k \in 1 .. Len(o.items) |->
                                  IF o.items[k][1] = "ref"
                                  THEN Ref(at[o.items[k][2]])
                                  ELSE o.items[k]]]
    IN  [at |-> at,
         heap |-> [n \in Ids |-> IF n <= Len(d) THEN moved(h[d[n]]) ELSE Free]]

\* The name of object r after the renaming.
Moved(c, r) == IF r = NoRef THEN NoRef ELSE c.at[r]

\* start_point = [b + d for b, d in zip(base_point, delta)]
NewStartPoint(h, p) ==
    LET r == Fresh(h) IN [ref |-> r, heap |-> [h EXCEPT ![r] = Obj(p)]]

\* Variant: points is bound to the list an earlier call returned.
NewListShared(h) ==
    IF memo.ref # NoRef
    THEN [ref |-> memo.ref, heap |-> h]
    ELSE LET r == Fresh(h) IN [ref |-> r, heap |-> [h EXCEPT ![r] = Obj(<<>>)]]

\* points = []
NewList(h) ==
    LET r == Fresh(h) IN [ref |-> r, heap |-> [h EXCEPT ![r] = Obj(<<>>)]]

\* points.append([x, y, z]): a new list [x, y, z] becomes the last element of
\* list r.
AppendNew(h, r, p) ==
    LET e == Fresh(h)
    IN  [h EXCEPT ![e] = Obj(p), ![r] = Obj(Append(h[r].items, Ref(e)))]

\* points = []
NewPoints == <<>>

\* Variant: each coordinate is updated before the next derivative is taken.
Body4Sequential(x0, y0, z0, a) ==
    LET ndx == Mul(a.sigma, Sub(y0, x0))
        nx  == Add(x0, Mul(ndx, a.dt))
        ndy == Sub(Mul(nx, Sub(a.rho, z0)), y0)
        ny  == Add(y0, Mul(ndy, a.dt))
        ndz == Sub(Mul(nx, ny), Mul(a.beta, z0))
    IN  [dx |-> ndx, dy |-> ndy, dz |-> ndz,
         x |-> nx, y |-> ny, z |-> Add(z0, Mul(ndz, a.dt))]

\* Variant: the step is not scaled by dt.
Body4NoDt(x0, y0, z0, a) ==
    LET ndx == Mul(a.sigma, Sub(y0, x0))
        ndy == Sub(Mul(x0, Sub(a.rho, z0)), y0)
        ndz == Sub(Mul(x0, y0), Mul(a.beta, z0))
    IN  [dx |-> ndx, dy |-> ndy, dz |-> ndz,
         x |-> Add(x0, ndx), y |-> Add(y0, ndy), z |-> Add(z0, ndz)]

\* One pass of the loop body of scene4 from locals (x0, y0, z0).
Body4(x0, y0, z0, a) ==
    LET ndx == Mul(a.sigma, Sub(y0, x0))
        ndy == Sub(Mul(x0, Sub(a.rho, z0)), y0)
        ndz == Sub(Mul(x0, y0), Mul(a.beta, z0))
    IN  [dx |-> ndx, dy |-> ndy, dz |-> ndz,
         x |-> Add(x0, Mul(ndx, a.dt)),
         y |-> Add(y0, Mul(ndy, a.dt)),
         z |-> Add(z0, Mul(ndz, a.dt))]

\* Variant: dx, dy, dz are taken after the coordinates are updated.
Body5AfterUpdate(x0, y0, z0, a) ==
    LET ndx == Mul(a.sigma, Sub(y0, x0))
        ndy == Sub(Mul(x0, Sub(a.rho, z0)), y0)
        ndz == Sub(Mul(x0, y0), Mul(a.beta, z0))
        nx  == Add(x0, Mul(ndx, a.dt))
        ny  == Add(y0, Mul(ndy, a.dt))
        nz  == Add(z0, Mul(ndz, a.dt))
    IN  [dx |-> Mul(a.sigma, Sub(ny, nx)),
         dy |-> Sub(Mul(nx, Sub(a.rho, nz)), ny),
         dz |-> Sub(Mul(nx, ny), Mul(a.beta, nz)),
         x |-> nx, y |-> ny, z |-> nz]

\* One pass of the loop body of scene5.
Body5(x0, y0, z0, a) ==
    LET ndx == Mul(a.sigma, Sub(y0, x0))
        ndy == Sub(Mul(x0, Sub(a.rho, z0)), y0)
        ndz == Sub(Mul(x0, y0), Mul(a.beta, z0))
    IN  [dx |-> ndx, dy |-> ndy, dz |-> ndz,
         x |-> Add(x0, Mul(ndx, a.dt)),
         y |-> Add(y0, Mul(ndy, a.dt)),
         z |-> Add(z0, Mul(ndz, a.dt))]

\* Variant: dz is taken as x*y + beta*z.
Body6SignSlip(x0, y0, z0, a) ==
    LET ndx == Mul(a.sigma, Sub(y0, x0))
        ndy == Sub(Mul(x0, Sub(a.rho, z0)), y0)
        ndz == Add(Mul(x0, y0), Mul(a.beta, z0))
    IN  [dx |-> ndx, dy |-> ndy, dz |-> ndz,
         x |-> Add(x0, Mul(ndx, a.dt)),
         y |-> Add(y0, Mul(ndy, a.dt)),
         z |-> Add(z0, Mul(ndz, a.dt))]

\* Variant: dx, dy, dz are taken after the coordinates are updated.
Body6AfterUpdate(x0, y0, z0, a) ==
    LET ndx == Mul(a.sigma, Sub(y0, x0))
        ndy == Sub(Mul(x0, Sub(a.rho, z0)), y0)
        ndz == Sub(Mul(x0, y0), Mul(a.beta, z0))
        nx  == Add(x0, Mul(ndx, a.dt))
        ny  == Add(y0, Mul(ndy, a.dt))
        nz  == Add(z0, Mul(ndz, a.dt))
    IN  [dx |-> Mul(a.sigma, Sub(ny, nx)),
         dy |-> Sub(Mul(nx, Sub(a.rho, nz)), ny),
         dz |-> Sub(Mul(nx, ny), Mul(a.beta, nz)),
         x |-> nx, y |-> ny, z |-> nz]

\* One pass of the loop body of scene6.
Body6(x0, y0, z0, a) ==
    LET ndx == Mul(a.sigma, Sub(y0, x0))
        ndy == Sub(Mul(x0, Sub(a.rho, z0)), y0)
        ndz == Sub(Mul(x0, y0), Mul(a.beta, z0))
    IN  [dx |-> ndx, dy |-> ndy, dz |-> ndz,
         x |-> Add(x0, Mul(ndx, a.dt)),
         y |-> Add(y0, Mul(ndy, a.dt)),
         z |-> Add(z0, Mul(ndz, a.dt))]

\* return points
Result4 == Returned(points, <<"none">>)

\* return points, [dx, dy, dz] : reading a local the loop never assigned
\* raises UnboundLocalError.
Result5 ==
    IF dx = Unbound \/ dy = Unbound \/ dz = Unbound
    THEN Raised("UnboundLocalError")
    ELSE Returned(points, <<"triple", dx, dy, dz>>)

\* return points, derivatives
Result6 == Returned(points, <<"list">> \o derivatives)

\* Entry of a call: the caller, holding c, builds the list it passes as xyz;
\* the arguments are bound, points = [] (and derivatives = [] in scene6),
\* x, y, z = xyz; dx, dy, dz are not yet bound.
Enter(s, a, c) ==
    /\ pc \in {"idle", "done"}
    /\ pc' = "loop"
    /\ scene' = s
    /\ args' = a
    /\ points' = NewPoints
    /\ derivatives' = <<>>
    /\ x' = a.xyz[1] /\ y' = a.xyz[2] /\ z' = a.xyz[3]
    /\ dx' = Unbound /\ dy' = Unbound /\ dz' = Unbound
    /\ iter' = 0
    /\ ret' = NoRet
    /\ LET sp == NewStartPoint(c.heap, a.xyz)
           np == NewList(sp.heap)
       IN  /\ memo' = IF memo.scene = 0 THEN memo
                      ELSE [memo EXCEPT !.earlier = TRUE,
                                        !.ref = Moved(c, memo.ref)]
           /\ xyz_ref' = sp.ref
           /\ points_ref' = np.ref
           /\ heap' = np.heap
    /\ UNCHANGED <<pendulumVars, kinVars>>

\* What the caller still holds when it calls again: the result the observer
\* keeps, and nothing of the call before.
Held == Collect(heap, <<memo.ref>>)

Call4 == LET c == Held IN \E a \in ArgInputs : Enter(4, a, c)
Call5 == LET c == Held IN \E a \in ArgInputs : Enter(5, a, c)
Call6 == LET c == Held IN \E a \in ArgInputs : Enter(6, a, c)

\* The end of a call that gave r, its list being pr (NoRef if it raised: a
\* call that raises hands its list to nobody).  The caller holds what is
\* returned and the list it passed; the observer may keep this call to
\* compare later calls with it.
Remember(r, pr) ==
    \E keep \in BOOLEAN :
        LET m == IF keep THEN memo
                 ELSE [scene |-> scene, args |-> args, ret |-> r,
                       earlier |-> FALSE, ref |-> pr]
            c == Collect(heap, <<m.ref, xyz_ref, pr>>)
        IN  /\ memo' = [m EXCEPT !.ref = Moved(c, m.ref)]
            /\ xyz_ref' = Moved(c, xyz_ref)
            /\ points_ref' = Moved(c, pr)
            /\ heap' = c.heap

\* for _ in range(num_points) with a num_points that is no integer.
RangeTypeError ==
    /\ pc = "loop"
    /\ ~RangeAccepts(args.num_points)
    /\ pc' = "done"
    /\ ret' = Raised("TypeError")
    /\ Remember(ret', NoRef)
    /\ UNCHANGED <<scene, args, x, y, z, dx, dy, dz, points, derivatives, iter>>
    /\ UNCHANGED <<pendulumVars, kinVars>>

HasNext == RangeAccepts(args.num_points) /\ iter < RangeLen(args.num_points)
Exhausted == RangeAccepts(args.num_points) /\ iter >= RangeLen(args.num_points)

\* The locals after one pass whose result is b.
Assign(b) ==
    /\ dx' = b.dx /\ dy' = b.dy /\ dz' = b.dz
    /\ x' = b.x /\ y' = b.y /\ z' = b.z
    /\ points' = Append(points, <<b.x, b.y, b.z>>)
    /\ heap' = AppendNew(heap, points_ref, <<b.x, b.y, b.z>>)
    /\ iter' = iter + 1
    /\ UNCHANGED <<pc, scene, args, ret, memo, xyz_ref, points_ref>>
    /\ UNCHANGED <<pendulumVars, kinVars>>

Iterate4 ==
    /\ pc = "loop" /\ scene = 4 /\ HasNext
    /\ Assign(Body4(x, y, z, args))
    /\ UNCHANGED derivatives

Iterate5 ==
    /\ pc = "loop" /\ scene = 5 /\ HasNext
    /\ Assign(Body5(x, y, z, args))
    /\ UNCHANGED derivatives

Iterate6 ==
    /\ pc = "loop" /\ scene = 6 /\ HasNext
    /\ LET b == Body6(x, y, z, args)
       IN  /\ derivatives' = Append(derivatives, <<b.dx, b.dy, b.dz>>)
           /\ Assign(b)

\* The return statement.
Finish(r) ==
    /\ pc' = "done"
    /\ ret' = r
    /\ Remember(r, IF r.exc = "" THEN points_ref ELSE NoRef)
    /\ UNCHANGED <<scene, args, x, y, z, dx, dy, dz, points, derivatives, iter>>
    /\ UNCHANGED <<pendulumVars, kinVars>>

Return4 == pc = "loop" /\ scene = 4 /\ Exhausted /\ Finish(Result4)
Return5 == pc = "loop" /\ scene = 5 /\ Exhausted /\ Finish(Result5)
Return6 == pc = "loop" /\ scene = 6 /\ Exhausted /\ Finish(Result6)

LorenzInit ==
    /\ pc = "idle"
    /\ scene = 0
    /\ args = NoArgs
    /\ x = Unbound /\ y = Unbound /\ z = Unbound
    /\ dx = Unbound /\ dy = Unbound /\ dz = Unbound
    /\ points = <<>>
    /\ derivatives = <<>>
    /\ iter = 0
    /\ ret = NoRet
    /\ memo = NoMemo
    /\ heap = EmptyHeap
    /\ xyz_ref = NoRef
    /\ points_ref = NoRef

-----------------------------------------------------------------------------
(* Properties of get_lorenz_points. *)

\* The call has returned or raised.
Done == pc = "done"
\* The call has returned a value.
ReturnedValue == Done /\ ret.exc = ""

IsNatural(n) == IsInteger(n) /\ n[2] >= 0

\* The derivative triple of the Lorenz system at p.
LorenzDerivative(p, a) ==
    <<Mul(a.sigma, Sub(p[2], p[1])),
      Sub(Mul(p[1], Sub(a.rho, p[3])), p[2]),
      Sub(Mul(p[1], p[2]), Mul(a.beta, p[3]))>>

\* The forward-Euler successor of p: all three derivatives are those at p.
EulerSuccessor(p, a) ==
    LET d == LorenzDerivative(p, a)
    IN  <<Add(p[1], Mul(d[1], a.dt)),
          Add(p[2], Mul(d[2], a.dt)),
          Add(p[3], Mul(d[3], a.dt))>>

\* The state the i-th step starts from.
PreStep(pts, i) == IF i = 1 THEN args.xyz ELSE pts[i - 1]

\* C1: for every non-negative integer num_points, each copy returns a point
\* sequence of length exactly num_points.
C1_LengthIsNumPoints ==
    (Done /\ IsNatural(args.num_points))
        => (ret.exc = "" /\ Len(ret.points) = args.num_points[2])

\* C2: the first returned point is the forward-Euler successor of the initial
\* state and every later point is the successor of the point before it, the
\* derivatives being those of the pre-step state; the initial state is not
\* emitted.
C2_EulerChain ==
    ReturnedValue =>
        \A i \in 1 .. Len(ret.points) :
            ret.points[i] = EulerSuccessor(PreStep(ret.points, i), args)

C2_Witness ==
    /\ ReturnedValue /\ scene = 4
    /\ args.xyz = Triple(-1, 2, 1)
    /\ Len(ret.points) = 3
    /\ ret.points[1] # args.xyz

\* C3: with num_points = 0 every copy returns an empty point sequence.
C3_ZeroGivesEmpty ==
    (Done /\ args.num_points = Zero) => (ret.exc = "" /\ ret.points = <<>>)

\* C4: the call returns its result and never ends in an error, for any
\* initial state and any real sigma, rho, beta, dt and num_points.  Stated
\* here for the integer values of num_points, which range accepts; a
\* num_points that is no integer ends in TypeError in every copy.
C4_NeverRaises == (Done /\ IsInteger(args.num_points)) => ret.exc = ""

\* C5: a call gives what an earlier call of the same copy with the same
\* arguments gave, whatever calls were made in between.
C5_Deterministic ==
    (Done /\ memo.earlier /\ memo.scene = scene /\ memo.args = args)
        => ret = memo.ret

C5_Witness ==
    /\ ReturnedValue /\ scene = 4
    /\ memo.earlier /\ memo.scene = 4 /\ memo.args = args
    /\ Len(ret.points) = 3

\* The derivative triple computed in the last pass of the loop.
LastStepDerivative ==
    LorenzDerivative(PreStep(ret.points, Len(ret.points)), args)

\* C6 as claimed: the copies that return derivative data (scene5, scene6)
\* return next to the points a single triple, the derivatives of the last
\* integration step.
C6_SingleFinalTriple ==
    (ReturnedValue /\ scene \in {5, 6} /\ Len(ret.points) >= 1)
        => ret.extra = <<"triple">> \o LastStepDerivative

\* C6 amended: for num_points >= 1, scene5 returns next to the points the
\* single triple [dx, dy, dz] of the last integration step; scene6 returns
\* the list of the triples of all num_points steps, the last of which is
\* that of the last step.
C6_DerivativeOutput ==
    (ReturnedValue /\ Len(ret.points) >= 1) =>
        /\ scene = 5 => ret.extra = <<"triple">> \o LastStepDerivative
        /\ scene = 6 =>
              /\ ret.extra[1] = "list"
              /\ Len(ret.extra) = 1 + Len(ret.points)
              /\ ret.extra[Len(ret.extra)] = LastStepDerivative

C6_Witness ==
    /\ ReturnedValue /\ scene = 5
    /\ Len(ret.points) = 3
    /\ ret.extra[1] = "triple"
    /\ memo.earlier /\ memo.scene = 6 /\ memo.ret.exc = ""
    /\ Len(memo.ret.extra) = 4

\* C7: for num_points >= 1 the copies return the same point sequence for the
\* same initial state and parameters.
C7_SamePoints ==
    (Done /\ memo.earlier /\ memo.args = args /\ memo.scene # scene
          /\ IsInteger(args.num_points) /\ args.num_points[2] >= 1)
        => (ret.exc = "" /\ memo.ret.exc = "" /\ ret.points = memo.ret.points)

C7_Witness ==
    /\ ReturnedValue /\ scene = 6
    /\ memo.earlier /\ memo.scene = 4 /\ memo.args = args
    /\ Len(ret.points) = 3

\* The arguments of the single-step example.
C8Args == ArgsOf(Triple(1, 1, 1), DefaultParams, One)

\* (1 + 0*0.01, 1 + 26*0.01, 1 + (1*1 - 8/3*1)*0.01)
C8Point ==
    <<Add(One, Mul(Zero, Q(1, 100))),
      Add(One, Mul(Whole(26), Q(1, 100))),
      Add(One, Mul(Sub(Mul(One, One), Mul(Q(8, 3), One)), Q(1, 100)))>>

\* |a - b| < 10^-6 : n/d < 1/10^6 exactly when n <= (d - 1) \div 10^6.
Near(a, b) ==
    LET d == Sub(a, b)
        n == IF d[2] < 0 THEN -d[2] ELSE d[2]
    IN  n <= (d[3] - 1) \div 1000000

\* The call of the example returns exactly the one point C8Point.
C8Exact ==
    /\ ret.exc = ""
    /\ ret.points = <<C8Point>>

\* C8 as claimed: from (1,1,1) with the default parameters and
\* num_points = 1 the call returns exactly one point,
\* (1 + 0*0.01, 1 + 26*0.01, 1 + (1*1 - 8/3*1)*0.01), which is about
\* (1.0, 1.26, 0.993333).
C8_SingleStepAsClaimed ==
    (Done /\ scene = 4 /\ args = C8Args) =>
        /\ C8Exact
        /\ Near(ret.points[1][1], One)
        /\ Near(ret.points[1][2], Q(126, 100))
        /\ Near(ret.points[1][3], Q(993333, 1000000))

\* C8 amended: that one point is (1 + 0*0.01, 1 + 26*0.01,
\* 1 + (1*1 - 8/3*1)*0.01), which is about (1.0, 1.26, 0.983333), since
\* 1*1 - 8/3*1 = -5/3.
C8_SingleStep ==
    (Done /\ scene = 4 /\ args = C8Args) =>
        /\ C8Exact
        /\ Near(ret.points[1][1], One)
        /\ Near(ret.points[1][2], Q(126, 100))
        /\ Near(ret.points[1][3], Q(983333, 1000000))

C8_Witness == ReturnedValue /\ scene = 4 /\ args = C8Args /\ Len(ret.points) = 1

\* The loop and the return that follows it: the steps of a call in progress.
Running ==
    \/ RangeTypeError
    \/ Iterate4 \/ Iterate5 \/ Iterate6
    \/ Return4 \/ Return5 \/ Return6

\* C13: for a non-negative integer num_points a call in progress has emitted
\* one point for each pass of the loop body made so far and made at most
\* num_points passes, it ends, and when it has ended it has made exactly
\* num_points passes.
C13_TerminatesAfterNumPoints ==
    /\ [](IsNatural(args.num_points) =>
            /\ Len(points) = iter
            /\ iter <= args.num_points[2]
            /\ Done => iter = args.num_points[2])
    /\ (pc = "loop" /\ IsNatural(args.num_points)) ~> Done

C13_Witness ==
    /\ Done /\ scene = 4 /\ ret.exc = ""
    /\ args.num_points = Whole(3)
    /\ iter = 3 /\ Len(points) = 3

\* C12: the list passed as xyz holds what was passed for as long as the call
\* runs and after it; the list an earlier call returned holds what that call
\* returned; the list of the current call is neither the list passed as xyz
\* nor the earlier list, and no element of it is an element of the earlier
\* list; and no step of a call changes sigma, rho, beta, dt or num_points.
C12_NoSharedState ==
    /\ [](pc # "idle" =>
            /\ heap[xyz_ref].live
            /\ heap[xyz_ref].items = args.xyz)
    /\ [](memo.ref # NoRef =>
            /\ heap[memo.ref].live
            /\ Contents(heap, memo.ref) = memo.ret.points)
    /\ [](points_ref # NoRef =>
            /\ heap[points_ref].live
            /\ Contents(heap, points_ref) = points
            /\ points_ref # xyz_ref
            /\ xyz_ref \notin Elements(heap, points_ref))
    /\ []((points_ref # NoRef /\ memo.ref # NoRef /\ memo.earlier) =>
            /\ points_ref # memo.ref
            /\ Elements(heap, points_ref) \cap Elements(heap, memo.ref) = {})
    /\ [][pc = "loop" => args' = args]_vars

C12_Witness ==
    /\ ReturnedValue /\ scene = 4
    /\ memo.earlier /\ memo.scene = 4 /\ memo.args = args
    /\ memo.ref # NoRef /\ points_ref # NoRef
    /\ Len(heap[memo.ref].items) = 3
    /\ Len(heap[points_ref].items) = 3

\* p + dt * d, componentwise.
Advanced(p, d, dt) ==
    <<Add(p[1], Mul(dt, d[1])), Add(p[2], Mul(dt, d[2])),
      Add(p[3], Mul(dt, d[3]))>>

\* C15: in scene6 the derivatives list is always as long as the points list,
\* and in what is returned points[i] is the pre-step state (the initial
\* state for i = 1, the point before otherwise) plus dt times derivatives[i],
\* derivatives[i] being the derivative at that pre-step state.
C15_DerivativesMatchPoints ==
    /\ scene = 6 => Len(derivatives) = Len(points)
    /\ (ReturnedValue /\ scene = 6) =>
          /\ ret.extra[1] = "list"
          /\ Len(ret.extra) - 1 = Len(ret.points)
          /\ \A i \in 1 .. Len(ret.points) :
                /\ ret.points[i]
                      = Advanced(PreStep(ret.points, i), ret.extra[i + 1], args.dt)
                /\ ret.extra[i + 1]
                      = LorenzDerivative(PreStep(ret.points, i), args)

C15_Witness ==
    /\ ReturnedValue /\ scene = 6
    /\ Len(ret.points) = 3
    /\ args.xyz = Triple(-1, 2, 1)
    /\ ret.extra[4] # LorenzDerivative(ret.points[3], args)

-----------------------------------------------------------------------------
(* scene7: the damped pendulum. *)

\* The constants of construct.
L == Q(35, 10)
g == Q(981, 100)
theta_0 == Div(PI, Whole(3))
omega == Sqrt(Div(g, L))
damping == Q(1, 10)

\* The most rows a trail keeps.
TrailCap == 150

\* A VMobject stores each straight segment as one cubic Bezier curve of
\* four rows of its points array.
RowsPerCurve == 4

\* theta = theta_0 * np.exp(-damping * t) * np.cos(omega * t)
PendulumTheta(t, th0, dmp, om) ==
    Mul(Mul(th0, Exp(Mul(Neg(dmp), t))), Cos(Mul(om, t)))

\* Variant: the velocity of the undamped oscillation under the envelope.
PendulumThetaDotUndamped(t, th0, dmp, om) ==
    Mul(Mul(th0, Exp(Mul(Neg(dmp), t))), Neg(Mul(om, Sin(Mul(om, t)))))

\* theta_dot = theta_0 * np.exp(-damping * t)
\*             * (-damping * np.cos(omega * t) - omega * np.sin(omega * t))
PendulumThetaDot(t, th0, dmp, om) ==
    Mul(Mul(th0, Exp(Mul(Neg(dmp), t))),
        Sub(Mul(Neg(dmp), Cos(Mul(om, t))), Mul(om, Sin(Mul(om, t)))))

\* interpolate(a, b, i / (RowsPerCurve - 1))
Interpolate(a, b, i) ==
    IF a = b \/ i = 0 THEN a
    ELSE IF i = RowsPerCurve - 1 THEN b
    ELSE <<"lerp", a, b, i>>

\* The rows of the curve that joins a to b.
LineRows(a, b) == [i \in 1 .. RowsPerCurve |-> Interpolate(a, b, i - 1)]

\* m.set_points_as_corners([a, b])
SetPointsAsCorners(a, b) == LineRows(a, b)

\* m.add_points_as_corners([p]): a line from the last row to p.
AddPointsAsCorners(pts, p) == pts \o LineRows(pts[Len(pts)], p)

LastRows(pts, n) == SubSeq(pts, Len(pts) - n + 1, Len(pts))

\* Variant: the slice keeps the head of the array.
TrimOldestKept(pts) ==
    IF Len(pts) > TrailCap THEN SubSeq(pts, 1, TrailCap) ELSE pts

\* if len(m.points) > 150: m.points = m.points[-150:]
Trim(pts) == IF Len(pts) > TrailCap THEN LastRows(pts, TrailCap) ELSE pts

ORIGIN == <<Zero, Zero, Zero>>

\* The frame increments the rendering loop may pass: none, or one frame at
\* 60, 30 or 15 frames a second.
DtInputs == {Zero, Q(1, 60), Q(1, 30), Q(1, 15)}

\* The scene as construct leaves it when the callback is installed.
PendulumConstructed(dt) ==
    /\ time = Zero
    /\ frame_dt = dt
    /\ theta = Unbound /\ theta_dot = Unbound
    /\ bob = <<Zero, Neg(L), Zero>>
    /\ rod = <<ORIGIN, <<Zero, Neg(L), Zero>>>>
    /\ path = SetPointsAsCorners(<<Zero, Neg(L), Zero>>, <<Zero, Neg(L), Zero>>)
    /\ potential_bar = Whole(4) /\ kinetic_bar = Whole(4)
    /\ phase_point = ORIGIN
    /\ phase_trail = SetPointsAsCorners(ORIGIN, ORIGIN)
    /\ frames = 0
    /\ path_added = path
    /\ phase_added = phase_trail
    /\ dts = <<>>
    /\ evals = <<>>

PendulumInit == \E dt \in DtInputs : PendulumConstructed(dt)

\* Variant: self.time = dt
AdvanceReplaced(tm, dt) == dt

\* self.time += dt
Advance(tm, dt) == Add(tm, dt)

\* update_pendulum(dt)
update_pendulum(dt) ==
    /\ frames' = frames + 1
    /\ time' = Advance(time, dt)
    /\ dts' = Append(dts, dt)
    /\ evals' = Append(evals, time')
    /\ LET t == time'
           th == PendulumTheta(t, theta_0, damping, omega)
           thd == PendulumThetaDot(t, theta_0, damping, omega)
           new_bob_pos == <<Mul(L, Sin(th)), Mul(Neg(L), Cos(th)), Zero>>
           PE == Mul(Sub(One, Cos(th)), Whole(2))
           KE == Mul(Mul(Div(thd, omega), Div(thd, omega)), Whole(2))
           phase_x == Mul(th, Whole(2))
           phase_y == thd
           new_phase == <<Add(phase_x, Whole(5)), phase_y, Zero>>
           path_grown == AddPointsAsCorners(path, new_bob_pos)
           phase_grown == AddPointsAsCorners(phase_trail, new_phase)
       IN  /\ theta' = th /\ theta_dot' = thd
           /\ bob' = new_bob_pos
           /\ rod' = <<ORIGIN, new_bob_pos>>
           /\ path' = Trim(path_grown)
           /\ path_added' =
                 path_added \o SubSeq(path_grown, Len(path) + 1, Len(path_grown))
           /\ potential_bar' = PE /\ kinetic_bar' = KE
           /\ phase_point' = new_phase
           /\ phase_trail' = Trim(phase_grown)
           /\ phase_added' =
                 phase_added
                     \o SubSeq(phase_grown, Len(phase_trail) + 1, Len(phase_grown))
    /\ UNCHANGED <<lorenzVars, kinVars>>

\* The callback at a fixed frame rate.
UpdatePendulum ==
    /\ frames < MaxFrames
    /\ update_pendulum(frame_dt)
    /\ UNCHANGED frame_dt

\* The increments a caller may pass: those of the rendering loop, and one
\* step back in time.
AnyDtInputs == DtInputs \cup {Q(-1, 60)}

\* The callback with an increment of its own each time.
UpdatePendulumAnyDt ==
    /\ frames < MaxVarFrames
    /\ \E dt \in AnyDtInputs :
          /\ frame_dt' = dt
          /\ update_pendulum(dt)

\* The n rows added last, in the order they were added (all of them when
\* fewer than n were added).
Newest(added, n) ==
    IF Len(added) <= n THEN added
    ELSE [i \in 1 .. n |-> added[Len(added) - n + i]]

\* C9: after any number of callbacks each trail holds at most 150 rows, and
\* they are the 150 rows added last, in the order they were added: an append
\* that takes a trail past 150 rows drops exactly the oldest.
C9_TrailsKeepNewest ==
    /\ Len(path) <= 150
    /\ Len(phase_trail) <= 150
    /\ path = Newest(path_added, 150)
    /\ phase_trail = Newest(phase_added, 150)

C9_Witness ==
    /\ frames >= 40
    /\ frame_dt # Zero
    /\ Len(path_added) > 150 /\ Len(path) = 150
    /\ Len(phase_added) > 150 /\ Len(phase_trail) = 150
    /\ path[1] # path_added[1]
    /\ path[150] = bob

\* dt_1 + ... + dt_k.
RECURSIVE SumTo(_, _)
SumTo(s, k) == IF k = 0 THEN Zero ELSE Add(SumTo(s, k - 1), s[k])

\* a <= b, for rationals.
Leq(a, b) == a[2] * b[3] <= b[2] * a[3]

\* self.time starts at 0 and is the sum of the increments passed; the k-th
\* callback evaluates at dt_1 + ... + dt_k, and theta and theta_dot are the
\* kinematics at the elapsed time; for non-negative increments the
\* evaluation times do not decrease.
C14_Accumulates ==
    /\ frames = 0 => time = Zero
    /\ Len(dts) = frames /\ Len(evals) = frames
    /\ time = SumTo(dts, frames)
    /\ \A k \in 1 .. frames : evals[k] = SumTo(dts, k)
    /\ frames > 0 =>
          /\ theta = PendulumTheta(SumTo(dts, frames), theta_0, damping, omega)
          /\ theta_dot
                = PendulumThetaDot(SumTo(dts, frames), theta_0, damping, omega)
    /\ (\A k \in 1 .. frames : Leq(Zero, dts[k]))
          => \A k \in 1 .. frames - 1 : Leq(evals[k], evals[k + 1])

\* C14 as claimed: self.time starts at 0 and after callbacks with increments
\* dt_1 .. dt_n is their sum; the k-th callback evaluates the kinematics at
\* dt_1 + ... + dt_k; for non-negative increments the evaluation times do not
\* decrease; and no callback evaluates at t = 0.
C14_NeverAtZero ==
    /\ C14_Accumulates
    /\ \A k \in 1 .. frames : evals[k] # Zero

\* C14: self.time starts at 0 and after callbacks with increments
\* dt_1 .. dt_n is their sum; the k-th callback evaluates the kinematics at
\* dt_1 + ... + dt_k; for non-negative increments the evaluation times do not
\* decrease; and while every increment is positive no callback evaluates at
\* t = 0.
C14_TimeIsSumOfIncrements ==
    /\ C14_Accumulates
    /\ (\A k \in 1 .. frames : dts[k] # Zero /\ Leq(Zero, dts[k]))
          => \A k \in 1 .. frames : evals[k] # Zero

C14_Witness ==
    /\ frames = 3
    /\ dts = <<Q(1, 60), Q(1, 30), Q(1, 15)>>
    /\ evals = <<Q(1, 60), Q(1, 20), Q(7, 60)>>
    /\ time = Q(7, 60)

-----------------------------------------------------------------------------
(* The kinematics as a function of its inputs. *)

TInputs == {Zero, Q(1, 60), One, Whole(10)}
Theta0Inputs == {theta_0, Zero, One, Q(-1, 2)}
DampingInputs == {damping, Zero, One, Whole(-1)}
OmegaInputs == {omega, One, Whole(2)}

KinInit ==
    /\ kin_in \in [t : TInputs, theta_0 : Theta0Inputs,
                   damping : DampingInputs, omega : OmegaInputs]
    /\ kin_out = <<>>

\* theta and theta_dot as lines 81-82 compute them.
Evaluate ==
    /\ kin_out = <<>>
    /\ kin_out' =
          <<PendulumTheta(kin_in.t, kin_in.theta_0, kin_in.damping, kin_in.omega),
            PendulumThetaDot(kin_in.t, kin_in.theta_0, kin_in.damping,
                             kin_in.omega)>>
    /\ UNCHANGED <<kin_in, lorenzVars, pendulumVars>>

\* C10: at t = 0 the kinematics give theta = theta_0 and
\* theta_dot = -damping * theta_0, for every theta_0, damping and omega.
C10_StateAtZero ==
    (kin_out # <<>> /\ kin_in.t = Zero) =>
        /\ kin_out[1] = kin_in.theta_0
        /\ kin_out[2] = Mul(Neg(kin_in.damping), kin_in.theta_0)

C10_Witness ==
    /\ kin_out # <<>>
    /\ kin_in.t = Zero
    /\ kin_in.theta_0 = theta_0 /\ kin_in.damping = damping
    /\ kin_in.omega = omega
    /\ kin_out[2] # Zero

-----------------------------------------------------------------------------
(* Specifications. *)

PendulumIdle == PendulumConstructed(Zero)

KinIdle == kin_in = <<>> /\ kin_out = <<>>

\* get_lorenz_points, called any number of times in any of its copies.
Init == LorenzInit /\ PendulumIdle /\ KinIdle
Next ==
    \/ Call4 \/ Call5 \/ Call6
    \/ RangeTypeError
    \/ Iterate4 \/ Iterate5 \/ Iterate6
    \/ Return4 \/ Return5 \/ Return6
Spec == Init /\ [][Next]_vars

\* The generator runs to completion in one call: a call in progress keeps
\* taking its next step.  This is WF_vars(Running) with ENABLED <<Running>>_vars
\* written out: a step of Running is possible exactly while pc = "loop", where
\* one of ~RangeAccepts, HasNext and Exhausted holds and the step changes pc
\* or iter.
SpecRunToCompletion ==
    Spec /\ (<>[](pc = "loop") => []<><<Running>>_vars)

\* scene7 under the rendering loop's frame callbacks.
InitPendulum == LorenzInit /\ PendulumInit /\ KinIdle
NextPendulum == UpdatePendulum
SpecPendulum == InitPendulum /\ [][NextPendulum]_vars

\* The pendulum scene, every callback with an increment of its own.
InitPendulumAnyDt == LorenzInit /\ PendulumIdle /\ KinIdle
NextPendulumAnyDt == UpdatePendulumAnyDt
SpecPendulumAnyDt == InitPendulumAnyDt /\ [][NextPendulumAnyDt]_vars

\* The kinematics applied to inputs drawn from bounded sets.
InitKinematics == LorenzInit /\ PendulumIdle /\ KinInit
NextKinematics == Evaluate
SpecKinematics == InitKinematics /\ [][NextKinematics]_vars

====
